---- MODULE Spec2Model ----
(***************************************************************************)
(* Model of streamlit_app.py: one run of the Streamlit script, from the    *)
(* sidebar inputs through get_multi_postcode_df / get_postcode_df, the     *)
(* property type filter, the plot and the highlight overlay.               *)
(*                                                                         *)
(* A Python str is a sequence of one-character strings; a word that holds  *)
(* none of the separators the code looks for ("/", ",", " ") is written as *)
(* one element where only its identity matters ("terraced").               *)
(* A DataFrame cell is a record [k, s, n]: NaN, a str or a number.         *)
(* A calendar date is the decimal literal of its day number.               *)
(***************************************************************************)
EXTENDS Integers, Sequences, FiniteSets, TLC

VARIABLES
  button,          \* st.button('Get Data') of this run
  autorun,         \* query_params.get('autorun', [False])[0]
  postcode_str,    \* sidebar text input 'Postcodes:'
  purchase_price,  \* sidebar number input 'Suggested Price:'
  purchase_addr,   \* sidebar text input 'Highlight Address:'
  type_checkboxes, \* the four sidebar checkboxes
  pc,              \* position of the script
  postcodes,       \* line 138
  queries,         \* query texts handed to sparql.query(), in order
  responses,       \* what the service answered to each of them
  dataframes,      \* the list built by the comprehension of line 78
  df,              \* line 139
  df_plot,         \* line 143
  fig,             \* lines 145-171
  screen,          \* what the main area shows
  table,           \* st.dataframe(df), line 181
  err              \* the exception that ended the run, if any

vars == <<button, autorun, postcode_str, purchase_price, purchase_addr,
          type_checkboxes, pc, postcodes, queries, responses, dataframes,
          df, df_plot, fig, screen, table, err>>

----------------------------------------------------------------------------
(* Bounds of the model *)

MaxInputLen == 3
MaxPostcodes == 3
MaxAggRows == 2
MaxRows == 3
MaxOptRows == 2
MaxFilterRows == 2

----------------------------------------------------------------------------
(* Python str *)

Range(s) == {s[i] : i \in 1..Len(s)}

SeqsUpTo(S, n) == UNION {[1..k -> S] : k \in 0..n}

\* a sequence given as a function, with its elements evaluated once
Tabulate(f) == f \o <<>>

CodePoint(c) ==
  CASE c = " " -> 32 [] c = "\"" -> 34 [] c = "," -> 44 [] c = "." -> 46
    [] c = "/" -> 47
    [] c = "0" -> 48 [] c = "1" -> 49 [] c = "2" -> 50 [] c = "3" -> 51
    [] c = "4" -> 52 [] c = "5" -> 53 [] c = "6" -> 54 [] c = "7" -> 55
    [] c = "8" -> 56 [] c = "9" -> 57
    [] c = "A" -> 65 [] c = "B" -> 66 [] c = "N" -> 78
    [] c = "a" -> 97 [] c = "b" -> 98 [] c = "n" -> 110

DigitChars == <<"0", "1", "2", "3", "4", "5", "6", "7", "8", "9">>

IsDigit(c) == c \in Range(DigitChars)
IsLower(c) == c \in {"a", "b", "n"}
IsUpper(c) == c \in {"A", "B", "N"}
IsSpace(c) == c = " "
IsAlnum(c) == IsDigit(c) \/ IsLower(c) \/ IsUpper(c)

ToUpper(c) == CASE c = "a" -> "A" [] c = "b" -> "B" [] c = "n" -> "N" [] OTHER -> c
ToLower(c) == CASE c = "A" -> "a" [] c = "B" -> "b" [] c = "N" -> "n" [] OTHER -> c

\* str.upper()
upper(s) == [i \in 1..Len(s) |-> ToUpper(s[i])]

\* str.strip()
strip(s) ==
  LET keep == {i \in 1..Len(s) : ~IsSpace(s[i])}
  IN IF keep = {} THEN <<>>
     ELSE LET lo == CHOOSE i \in keep : \A j \in keep : i <= j
              hi == CHOOSE i \in keep : \A j \in keep : j <= i
          IN SubSeq(s, lo, hi)

\* str.split(sep) for a one-character sep: always at least one piece
RECURSIVE split(_, _)
split(s, sep) ==
  LET at == {i \in 1..Len(s) : s[i] = sep}
  IN IF at = {} THEN <<s>>
     ELSE LET i == CHOOSE i \in at : \A j \in at : i <= j
          IN <<SubSeq(s, 1, i - 1)>> \o split(SubSeq(s, i + 1, Len(s)), sep)

\* x.split('/')[-1]
LastSegment(s) == LET parts == split(s, "/") IN parts[Len(parts)]

\* str.title(): a cased character is upper-cased when the one before it is
\* not cased, and lower-cased when it is
title(s) ==
  [i \in 1..Len(s) |->
     LET prevCased == i > 1 /\ (IsLower(s[i - 1]) \/ IsUpper(s[i - 1]))
     IN IF prevCased THEN ToLower(s[i]) ELSE ToUpper(s[i])]

\* text.replace(old, new) where old is one element of the template
RECURSIVE replace(_, _, _)
replace(text, old, new) ==
  IF text = <<>> THEN <<>>
  ELSE (IF Head(text) = old THEN new ELSE <<Head(text)>>)
         \o replace(Tail(text), old, new)

\* ', '.join(parts)
RECURSIVE join(_, _)
join(sep, parts) ==
  IF parts = <<>> THEN <<>>
  ELSE IF Len(parts) = 1 THEN parts[1]
  ELSE parts[1] \o sep \o join(sep, Tail(parts))

\* Python's < on str: by code point, a proper prefix first
RECURSIVE StrLess(_, _)
StrLess(a, b) ==
  IF b = <<>> THEN FALSE
  ELSE IF a = <<>> THEN TRUE
  ELSE IF Head(a) = Head(b) THEN StrLess(Tail(a), Tail(b))
  ELSE CodePoint(Head(a)) < CodePoint(Head(b))

DigitValue(c) == CHOOSE d \in 0..9 : DigitChars[d + 1] = c

RECURSIVE ParseDigits(_)
ParseDigits(s) ==
  IF s = <<>> THEN 0
  ELSE 10 * ParseDigits(SubSeq(s, 1, Len(s) - 1)) + DigitValue(s[Len(s)])

RECURSIVE Digits(_)
Digits(n) ==
  IF n < 10 THEN <<DigitChars[n + 1]>>
  ELSE Digits(n \div 10) \o <<DigitChars[(n % 10) + 1]>>

IsNumeric(s) == s # <<>> /\ \A i \in 1..Len(s) : IsDigit(s[i])

----------------------------------------------------------------------------
(* DataFrame cells *)

NaN == [k |-> "nan", s |-> <<>>, n |-> 0]
Str(s) == [k |-> "str", s |-> s, n |-> 0]
Num(n) == [k |-> "num", s |-> <<>>, n |-> n]

isna(v) == v.k = "nan"

property_types == << <<"detached">>, <<"semi-detached">>, <<"terraced">>,
                     <<"flat-maisonette">> >>

\* the template of lines 24-48, cut at the placeholder
QueryTemplate == <<"VALUES ?postcode {\"", "SUB_POSTCODE", "\"^^xsd:string}">>

\* lines 23-49: the text handed to sparql.setQuery
setQuery(postcode) == replace(QueryTemplate, "SUB_POSTCODE", postcode)

\* the variables the SELECT of line 29 may bind
Fields == {"paon", "saon", "street", "town", "county", "postcode", "amount",
           "date", "propertyType", "estateType"}

\* the variables of the OPTIONAL clauses, lines 42-46
OptionalFields == {"county", "paon", "saon", "street", "town"}

\* line 53: the columns are the keys met in some binding, a cell is the
\* binding's value, NaN where the binding lacks the key
Columns(res) == UNION {DOMAIN res[i] : i \in 1..Len(res)}
Cell(res, i, f) == IF f \in DOMAIN res[i] THEN Str(res[i][f]) ELSE NaN

\* line 58, per element: pd.to_numeric(x, errors='coerce')
to_numeric_coerce(v) ==
  IF v.k = "str" /\ IsNumeric(v.s) THEN Num(ParseDigits(v.s)) ELSE NaN

\* line 59 left out: paon stays the text the service sent
keep_text(v) == v

\* line 59, per element: pd.to_numeric(x, errors='ignore')
to_numeric_ignore(v) ==
  IF v.k = "str" /\ IsNumeric(v.s) THEN Num(ParseDigits(v.s)) ELSE v

\* line 61: pd.to_datetime raises on a literal it cannot parse
DateParses(v) == isna(v) \/ (v.k = "str" /\ IsNumeric(v.s))
to_datetime(v) == IF isna(v) THEN NaN ELSE Num(ParseDigits(v.s))

\* lines 63-64: x.split('/')[-1]
TypeName(v) == Str(LastSegment(v.s))

\* line 67, df['paon'].map(str): Series.apply leaves a float64 column when the
\* converted values are numbers and NaN only, an int64 or object column otherwise
PaonText(v, column) ==
  CASE v.k = "str" -> v.s
    [] v.k = "nan" -> <<"n", "a", "n">>
    [] v.k = "num" ->
         IF (\E u \in column : isna(u)) /\ ~(\E u \in column : u.k = "str")
         THEN Digits(v.n) \o <<".", "0">>
         ELSE Digits(v.n)

\* lines 66-68
Address(saon, paon, street, paonColumn) ==
  LET flat_addr == IF isna(saon) THEN <<>> ELSE saon.s \o <<" ">>
  IN IF isna(street) THEN NaN
     ELSE Str(title(flat_addr \o PaonText(paon, paonColumn) \o <<" ">> \o street.s))

\* the order of the categories of one sort key (safe_sort): numbers before
\* strings, numbers by value, strings by code point
ValLess(a, b) ==
  CASE a.k = "num" /\ b.k = "num" -> a.n < b.n
    [] a.k = "num" /\ b.k = "str" -> TRUE
    [] a.k = "str" /\ b.k = "num" -> FALSE
    [] a.k = "str" /\ b.k = "str" -> StrLess(a.s, b.s)
    [] OTHER -> FALSE

\* lexsort_indexer: the code of a value is its rank among the column's
\* values, NaN after all of them (na_position='last')
Code(v, column) ==
  LET cats == {u \in column : ~isna(u)}
  IN IF isna(v) THEN Cardinality(cats)
     ELSE Cardinality({u \in cats : ValLess(u, v)})

TupleLess(a, b) ==
  \E i \in 1..Len(a) : a[i] < b[i] /\ \A j \in 1..(i - 1) : a[j] = b[j]

\* line 73: df.sort_values(by), a stable lexicographic sort on the codes
sort_values(rows, by) ==
  LET n == Len(rows)
      cats == Tabulate([c \in 1..Len(by) |-> {rows[i][by[c]] : i \in 1..n}])
      keys == Tabulate([i \in 1..n |->
                Tabulate([c \in 1..Len(by) |-> Code(rows[i][by[c]], cats[c])])])
      Before(i, j) == TupleLess(keys[i], keys[j]) \/ (keys[i] = keys[j] /\ i < j)
      at(p) == CHOOSE i \in 1..n : Cardinality({j \in 1..n : Before(j, i)}) = p - 1
  IN Tabulate([p \in 1..n |-> rows[at(p)]])

Raise(type, what) == [ok |-> FALSE, err |-> <<type, what>>, rows |-> <<>>]
Return(rows) == [ok |-> TRUE, err |-> <<>>, rows |-> rows]

\* lines 52-74, given the bindings the service returned
get_postcode_df(res) ==
  LET n == Len(res)
      cols == Columns(res) \cup {"saon"}                          \* 55-56
      cell(i, f) == Cell(res, i, f)
      paon(i) == to_numeric_ignore(cell(i, "paon"))                \* 59
      paonColumn == {paon(i) : i \in 1..n}
      row(i) ==
        [index |-> i,
         address |-> Address(cell(i, "saon"), paon(i), cell(i, "street"),
                             paonColumn),
         amount |-> to_numeric_coerce(cell(i, "amount")),          \* 58
         date |-> to_datetime(cell(i, "date")),                    \* 61
         postcode |-> cell(i, "postcode"),
         propertyType |-> TypeName(cell(i, "propertyType")),       \* 63
         estateType |-> TypeName(cell(i, "estateType")),           \* 64
         saon |-> cell(i, "saon"),
         paon |-> paon(i),
         street |-> cell(i, "street"),
         town |-> cell(i, "town"),
         county |-> cell(i, "county")]
      missing(fs) == fs \ cols
      first(fs) == CHOOSE f \in fs : TRUE
  IN IF "amount" \notin cols THEN Raise("KeyError", "amount")
     ELSE IF "paon" \notin cols THEN Raise("KeyError", "paon")
     ELSE IF "date" \notin cols THEN Raise("KeyError", "date")
     ELSE IF \E i \in 1..n : ~DateParses(cell(i, "date"))
       THEN Raise("ValueError", "date")
     ELSE IF "propertyType" \notin cols THEN Raise("KeyError", "propertyType")
     ELSE IF \E i \in 1..n : isna(cell(i, "propertyType"))
       THEN Raise("AttributeError", "propertyType")
     ELSE IF "estateType" \notin cols THEN Raise("KeyError", "estateType")
     ELSE IF \E i \in 1..n : isna(cell(i, "estateType"))
       THEN Raise("AttributeError", "estateType")
     ELSE IF "street" \notin cols THEN Raise("KeyError", "street")
     ELSE IF missing({"postcode", "town", "county"}) # {}          \* 70-71
       THEN Raise("KeyError", first(missing({"postcode", "town", "county"})))
     ELSE Return(sort_values(Tabulate([i \in 1..n |-> row(i)]),
                             <<"street", "paon", "date">>))        \* 73

----------------------------------------------------------------------------
(* The external service *)

\* a binding of the SELECT for the queried postcode: ?postcode is the VALUES
\* constant of line 32
Stamp(b, code) ==
  [f \in DOMAIN b \cup {"postcode"} |-> IF f = "postcode" THEN code ELSE b[f]]

Answer(bindings) == [ok |-> TRUE, err |-> <<>>, bindings |-> bindings]

\* sparql.query() raising (network failure, timeout)
Unavailable == [ok |-> FALSE, err |-> <<"URLError", "query">>, bindings |-> <<>>]

Uri(name) == <<"http:", "/", "/", "landregistry", "/", name>>

\* a binding with every OPTIONAL variable bound
Sale(paon, street, date, type) ==
  [paon |-> paon, saon |-> <<"1">>, street |-> street, town |-> <<"a">>,
   county |-> <<"b">>, amount |-> <<"5">>, date |-> date,
   propertyType |-> Uri(type), estateType |-> Uri("freehold")]

\* the same sale with only the OPTIONAL variables in bound left
Restrict(b, bound) ==
  [f \in (DOMAIN b \ OptionalFields) \cup bound |-> b[f]]

----------------------------------------------------------------------------
(* The script *)

NoFig == [data |-> <<>>, title |-> <<>>, price |-> <<>>, highlight_on |-> FALSE,
          highlight |-> <<>>]

InitRun ==
  /\ pc = "start"
  /\ postcodes = <<>>
  /\ queries = <<>>
  /\ responses = <<>>
  /\ dataframes = <<>>
  /\ df = <<>>
  /\ df_plot = <<>>
  /\ fig = NoFig
  /\ screen = "blank"
  /\ table = <<>>
  /\ err = <<>>

\* line 117: False when the parameter is absent, else its text
NoAutorun == [given |-> FALSE, value |-> <<>>]
AutorunParam(text) == [given |-> TRUE, value |-> text]

\* Python truth value of autorun, line 135
Truthy(a) == a.given /\ Len(a.value) > 0

\* line 138
ParsePostcodes(text) ==
  LET parts == split(text, ",")
  IN [i \in 1..Len(parts) |-> upper(strip(parts[i]))]

\* lines 135-138 and 183-188: the branch the run takes
Rerun ==
  /\ pc = "start"
  /\ IF button \/ Truthy(autorun)
     THEN IF Len(postcode_str) > 0
          THEN /\ postcodes' = ParsePostcodes(postcode_str)
               /\ screen' = "spinner"
               /\ pc' = "fetch"
          ELSE /\ screen' = "warning"
               /\ pc' = "done"
               /\ UNCHANGED postcodes
     ELSE /\ screen' = "placeholder"
          /\ pc' = "done"
          /\ UNCHANGED postcodes
  /\ UNCHANGED <<button, autorun, postcode_str, purchase_price, purchase_addr,
                 type_checkboxes, queries, responses, dataframes, df, df_plot,
                 fig, table, err>>

\* the frame put before the ones collected so far
CollectFirst(frames, frame) == <<frame>> \o frames

\* line 78: the comprehension appends each frame as get_postcode_df returns it
Collect(frames, frame) == Append(frames, frame)

\* the exception recorded and the loop going on with an empty frame
Swallow(e) ==
  /\ err' = e
  /\ dataframes' = Append(dataframes, <<>>)
  /\ UNCHANGED <<pc, screen>>

\* an uncaught exception ends the run
Abort(e) ==
  /\ err' = e
  /\ screen' = "exception"
  /\ pc' = "done"
  /\ UNCHANGED dataframes

\* line 78, one iteration: get_postcode_df(code), lines 22-74
Fetch(Replies) ==
  /\ pc = "fetch"
  /\ Len(dataframes) < Len(postcodes)
  /\ LET code == postcodes[Len(dataframes) + 1]
     IN /\ queries' = Append(queries, setQuery(code))
        /\ \E reply \in Replies :
             LET results == IF reply.ok
                            THEN Answer([i \in 1..Len(reply.bindings) |->
                                           Stamp(reply.bindings[i], code)])
                            ELSE reply
                 frame == get_postcode_df(results.bindings)
             IN /\ responses' = Append(responses, results)
                /\ IF ~results.ok THEN Abort(results.err)
                   ELSE IF ~frame.ok THEN Abort(frame.err)
                   ELSE /\ dataframes' = Collect(dataframes, frame.rows)
                        /\ UNCHANGED <<pc, screen, err>>
  /\ UNCHANGED <<button, autorun, postcode_str, purchase_price, purchase_addr,
                 type_checkboxes, postcodes, df, df_plot, fig, table>>

\* pd.concat: the frames end to end, in list order, index labels kept
RECURSIVE pd_concat(_)
pd_concat(frames) ==
  IF frames = <<>> THEN <<>> ELSE Head(frames) \o pd_concat(Tail(frames))

\* line 79
Concat ==
  /\ pc = "fetch"
  /\ Len(dataframes) = Len(postcodes)
  /\ df' = pd_concat(dataframes)
  /\ pc' = "filter"
  /\ UNCHANGED <<button, autorun, postcode_str, purchase_price, purchase_addr,
                 type_checkboxes, postcodes, queries, responses, dataframes,
                 df_plot, fig, screen, table, err>>

\* line 142: np.array(property_types)[type_checkboxes]
Enabled(boxes) ==
  {property_types[i] : i \in {j \in 1..Len(property_types) : boxes[j]}}

\* a row test that passes every property type
isin_any(row, types) == row.propertyType.k = "str"

\* line 143: df['propertyType'].isin(types), per row
isin(row, types) == row.propertyType.k = "str" /\ row.propertyType.s \in types

\* lines 142-143
Filter ==
  /\ pc = "filter"
  /\ df_plot' = SelectSeq(df, LAMBDA row : isin(row, Enabled(type_checkboxes)))
  /\ pc' = "plot"
  /\ UNCHANGED <<button, autorun, postcode_str, purchase_price, purchase_addr,
                 type_checkboxes, postcodes, queries, responses, dataframes,
                 df, fig, screen, table, err>>

\* the highlight string title-cased before the comparison
AddressMatchesTitle(row, addr) == row.address = Str(title(addr))

\* line 161: the row test of df_plot.query('address == @purchase_addr')
AddressMatches(row, addr) == row.address = Str(addr)

\* lines 82-97
plot_from_df(data, heading) ==
  [data |-> data, title |-> heading, price |-> <<>>, highlight_on |-> FALSE,
   highlight |-> <<>>]

\* lines 145-171
Plot ==
  /\ pc = "plot"
  /\ LET base == plot_from_df(df_plot, join(<<",", " ">>, postcodes))
         df_highlight ==
           SelectSeq(df_plot, LAMBDA row : AddressMatches(row, purchase_addr))
     IN fig' = [base EXCEPT
                  !.price = IF purchase_price # 0
                            THEN <<[x |-> "today", y |-> purchase_price]>>
                            ELSE <<>>,
                  !.highlight_on = Len(purchase_addr) > 0,
                  !.highlight = IF Len(purchase_addr) > 0 THEN df_highlight
                                ELSE <<>>]
  /\ pc' = "show"
  /\ UNCHANGED <<button, autorun, postcode_str, purchase_price, purchase_addr,
                 type_checkboxes, postcodes, queries, responses, dataframes,
                 df, df_plot, screen, table, err>>

\* lines 173-181
Show ==
  /\ pc = "show"
  /\ screen' = "chart"
  /\ table' = df
  /\ pc' = "done"
  /\ UNCHANGED <<button, autorun, postcode_str, purchase_price, purchase_addr,
                 type_checkboxes, postcodes, queries, responses, dataframes,
                 df, df_plot, fig, err>>

AllOn == <<TRUE, TRUE, TRUE, TRUE>>

----------------------------------------------------------------------------
(* SpecGate: every short text in the postcode box, the button and the      *)
(* autorun parameter; the service knows one sale per postcode, or none.    *)

GateChars == {"a", " ", ",", "\""}

GateReplies ==
  {Unavailable, Answer(<<>>),
   Answer(<<Sale(<<"9">>, <<"a">>, <<"1">>, "terraced")>>)}

InitGate ==
  /\ button \in BOOLEAN
  /\ autorun \in {NoAutorun, AutorunParam(<<"True">>), AutorunParam(<<"False">>),
                  AutorunParam(<<>>)}
  /\ postcode_str \in SeqsUpTo(GateChars, MaxInputLen)
  /\ purchase_price = 0
  /\ purchase_addr = <<>>
  /\ type_checkboxes = AllOn
  /\ InitRun

NextGate == Rerun \/ Fetch(GateReplies) \/ Concat \/ Filter \/ Plot \/ Show

SpecGate == InitGate /\ [][NextGate]_vars

----------------------------------------------------------------------------
(* SpecAgg: one to MaxPostcodes postcodes; the service holds two runs of   *)
(* sales and answers each query with the first rows of one of them, up to  *)
(* MaxAggRows, with no row, or not at all.                                 *)

\* the text "a,b,a,..." of k postcodes
PostcodeText(k) ==
  join(<<",">>, [i \in 1..k |-> IF i % 2 = 1 THEN <<"a">> ELSE <<"b">>])

AggSales == <<Sale(<<"9">>, <<"b">>, <<"2">>, "terraced"),
              Sale(<<"1", "0">>, <<"a">>, <<"1">>, "detached")>>

\* n sales, taken in turn from AggSales, starting with the first-th
AggRun(first, n) == [i \in 1..n |-> AggSales[((first + i) % 2) + 1]]

AggReplies ==
  {Unavailable}
    \cup {Answer(AggRun(first, n)) : first \in 1..2, n \in 0..MaxAggRows}

InitAgg ==
  /\ button = TRUE
  /\ autorun = NoAutorun
  /\ postcode_str \in {PostcodeText(k) : k \in 1..MaxPostcodes}
  /\ purchase_price \in {0, 270000}
  /\ purchase_addr = <<>>
  /\ type_checkboxes = AllOn
  /\ InitRun

NextAgg == Rerun \/ Fetch(AggReplies) \/ Concat \/ Filter \/ Plot \/ Show

SpecAgg == InitAgg /\ [][NextAgg]_vars

----------------------------------------------------------------------------
(* SpecNorm: one postcode; the service answers with up to MaxRows sales    *)
(* that differ in street, paon and date.                                   *)

SortSales ==
  {Sale(paon, <<"a">>, date, "terraced") :
     paon \in {<<"9">>, <<"1", "0">>, <<"a">>}, date \in {<<"1">>, <<"2">>}}
    \cup {Sale(<<"9">>, <<"B">>, date, "terraced") : date \in {<<"1">>, <<"2">>}}

NormReplies == {Answer(bs) : bs \in SeqsUpTo(SortSales, MaxRows)}

InitNorm ==
  /\ button = TRUE
  /\ autorun = NoAutorun
  /\ postcode_str = <<"a">>
  /\ purchase_price = 0
  /\ purchase_addr = <<>>
  /\ type_checkboxes = AllOn
  /\ InitRun

NextNorm == Rerun \/ Fetch(NormReplies) \/ Concat \/ Filter \/ Plot \/ Show

SpecNorm == InitNorm /\ [][NextNorm]_vars

----------------------------------------------------------------------------
(* SpecOpt: one postcode; the service answers with up to MaxOptRows sales  *)
(* that differ in which OPTIONAL variables are bound.                      *)

OptSales ==
  {Restrict(Sale(paon, <<"a">>, <<"1">>, "terraced"), bound) :
     paon \in {<<"9">>, <<"a">>}, bound \in SUBSET OptionalFields}

OptReplies == {Answer(bs) : bs \in SeqsUpTo(OptSales, MaxOptRows)}

NextOpt == Rerun \/ Fetch(OptReplies) \/ Concat \/ Filter \/ Plot \/ Show

SpecOpt == InitNorm /\ [][NextOpt]_vars

----------------------------------------------------------------------------
(* SpecFilter: one postcode, every filter mask, highlight strings in both  *)
(* letter cases; the sales differ in property type and in address.         *)

FilterSales ==
  {Sale(<<"9">>, <<"a">>, <<"1">>, type) :
     type \in {"detached", "semi-detached", "terraced", "flat-maisonette",
               "otherPropertyType"}}
    \cup {Sale(<<"9">>, <<"b">>, <<"1">>, "terraced")}

FilterReplies == {Answer(bs) : bs \in SeqsUpTo(FilterSales, MaxFilterRows)}

HighlightTexts ==
  {<<>>, <<"1", " ", "9", " ", "a">>, <<"1", " ", "9", " ", "A">>,
   <<"1", " ", "9", " ", "B">>, <<"9", " ", "A">>}

InitFilter ==
  /\ button = TRUE
  /\ autorun = NoAutorun
  /\ postcode_str = <<"a">>
  /\ purchase_price = 0
  /\ purchase_addr \in HighlightTexts
  /\ type_checkboxes \in [1..Len(property_types) -> BOOLEAN]
  /\ InitRun

NextFilter == Rerun \/ Fetch(FilterReplies) \/ Concat \/ Filter \/ Plot \/ Show

SpecFilter == InitFilter /\ [][NextFilter]_vars

----------------------------------------------------------------------------
(* Properties *)

Fetched == pc \in {"filter", "plot", "show"} \/ screen = "chart"
Filtered == pc \in {"plot", "show"} \/ screen = "chart"
Plotted == pc = "show" \/ screen = "chart"

\* the k-th smallest element of a set of positions
Nth(K, k) == CHOOSE i \in K : Cardinality({j \in K : j < i}) = k - 1

\* what get_postcode_df alone makes of each answer
SequentialFrames ==
  Tabulate([i \in 1..Len(responses) |->
              get_postcode_df(responses[i].bindings).rows])

RECURSIVE Offset(_, _)
Offset(frames, i) ==
  IF i = 1 THEN 0 ELSE Offset(frames, i - 1) + Len(frames[i - 1])

Failed(r) == ~r.ok \/ ~get_postcode_df(r.bindings).ok
ErrorOf(r) == IF ~r.ok THEN r.err ELSE get_postcode_df(r.bindings).err

\* C1: the aggregate dataset is the per-postcode frames end to end in the
\* order of the postcode list, the queries having been sent in that order:
\* the rows of the postcode at position i sit right after those of the
\* positions before it, as in a strictly sequential run.
C1_InputOrder ==
  Fetched =>
    LET frames == SequentialFrames
    IN /\ Len(responses) = Len(postcodes)
       /\ \A i \in 1..Len(postcodes) : queries[i] = setQuery(postcodes[i])
       /\ Len(df) = Offset(frames, Len(postcodes) + 1)
       /\ \A i \in 1..Len(postcodes) : \A k \in 1..Len(frames[i]) :
            /\ df[Offset(frames, i) + k] = frames[i][k]
            /\ df[Offset(frames, i) + k].postcode = Str(postcodes[i])

C1_Witness ==
  /\ screen = "chart"
  /\ Len(postcodes) >= 2
  /\ Len(dataframes[1]) = 2
  /\ dataframes[1][1].index = 2
  /\ df[1].postcode # df[Len(df)].postcode
  /\ dataframes[1] # dataframes[2]

\* C2 as stated, for a query the service does not answer: the failing
\* postcode does not abort the request, which ends with the chart and the
\* rows of the postcodes that succeeded.
C2_PartialDataset ==
  (pc = "done" /\ \E i \in 1..Len(responses) : ~responses[i].ok) =>
    /\ screen = "chart"
    /\ Len(responses) = Len(postcodes)
    /\ table = pd_concat(dataframes)

\* C2 amended: the first postcode whose fetch or normalization fails ends
\* the run with that exception: no later postcode is queried and no dataset,
\* chart or table is produced, not even for the postcodes that succeeded.
C2_FailureAborts ==
  \A i \in 1..Len(responses) :
    Failed(responses[i]) =>
      /\ i = Len(responses)
      /\ Len(queries) = i
      /\ pc = "done"
      /\ screen = "exception"
      /\ err = ErrorOf(responses[i])
      /\ df = <<>> /\ df_plot = <<>> /\ table = <<>> /\ fig = NoFig

C2_Witness ==
  /\ Len(responses) >= 2
  /\ Len(responses) < Len(postcodes)
  /\ ~responses[Len(responses)].ok
  /\ Len(dataframes) = Len(responses) - 1
  /\ screen = "exception"

\* C3: input that holds no postcode (empty, or only spaces and commas) sends
\* no query and is answered with the warning; every postcode queried is a
\* non-empty string.
C3_EmptyInputRejected ==
  /\ (\A i \in 1..Len(postcode_str) : postcode_str[i] \in {" ", ","}) =>
       /\ queries = <<>>
       /\ (pc = "done" /\ (button \/ Truthy(autorun))) => screen = "warning"
  /\ \A i \in 1..Len(queries) : postcodes[i] # <<>>

\* C4: an answer with zero bindings is no error: the run does not end with
\* an exception, and when every postcode has zero bindings the run ends with
\* the chart over an empty dataset.
C4_ZeroRowsValid ==
  /\ \A i \in 1..Len(responses) :
       (responses[i].ok /\ responses[i].bindings = <<>>) =>
         (~Failed(responses[i]) /\ screen # "exception")
  /\ (/\ pc = "done"
      /\ responses # <<>>
      /\ \A i \in 1..Len(responses) :
           responses[i].ok /\ responses[i].bindings = <<>>) =>
       (screen = "chart" /\ table = <<>>)

\* the property types whose checkbox is ticked
Ticked ==
  {t \in Range(property_types) :
     \E i \in 1..Len(type_checkboxes) : type_checkboxes[i] /\ property_types[i] = t}

KeptRows == {i \in 1..Len(df) : df[i].propertyType.s \in Ticked}

\* C5: whatever the four checkboxes, the filtered dataset is exactly the rows
\* of the dataset whose propertyType is ticked, in their order; it is no
\* longer than the dataset, and the dataset itself, which the table shows,
\* is the unfiltered aggregate.
C5_FilterExact ==
  Filtered =>
    /\ Len(df_plot) = Cardinality(KeptRows)
    /\ \A k \in 1..Len(df_plot) :
         /\ df_plot[k] = df[Nth(KeptRows, k)]
         /\ df_plot[k].propertyType.s \in Ticked
    /\ Len(df_plot) <= Len(df)
    /\ df = pd_concat(dataframes)
    /\ (screen = "chart" => table = df)

C5_Witness ==
  /\ screen = "chart"
  /\ Len(df) = 2
  /\ Len(df_plot) = 1
  /\ df_plot[1] = df[2]
  /\ Cardinality(Ticked) = 2

\* the rows of the filtered dataset whose address is text
AddressIs(text) ==
  {i \in 1..Len(df_plot) :
     df_plot[i].address.k = "str" /\ df_plot[i].address.s = text}

HighlightIs(M) ==
  /\ fig.highlight_on
  /\ Len(fig.highlight) = Cardinality(M)
  /\ \A k \in 1..Len(fig.highlight) : fig.highlight[k] = df_plot[Nth(M, k)]

\* C8 as stated: the overlay holds the filtered rows whose address is the
\* title-cased highlight string.
C8_TitleCaseMatch ==
  (Plotted /\ purchase_addr # <<>>) => HighlightIs(AddressIs(title(purchase_addr)))

\* C8 amended: the highlight string is compared as typed: the overlay holds
\* exactly the filtered rows whose address equals it character for
\* character, so a string that is not in the address's title case selects
\* no row; a string matching no row gives an overlay with zero points and
\* the run goes on; an empty string adds no overlay.
C8_ExactMatch ==
  Plotted =>
    /\ purchase_addr # <<>> => HighlightIs(AddressIs(purchase_addr))
    /\ (purchase_addr # <<>> /\ purchase_addr # title(purchase_addr)) =>
         fig.highlight = <<>>
    /\ purchase_addr = <<>> => (~fig.highlight_on /\ fig.highlight = <<>>)
    /\ err = <<>>
    /\ screen # "exception"

C8_Witness ==
  /\ screen = "chart"
  /\ Len(df_plot) = 2
  /\ Len(fig.highlight) = 1
  /\ fig.highlight[1] = df_plot[2]

\* C6: a non-empty answer is normalized whatever OPTIONAL variables are
\* unbound: one row per binding, and NaN in the row for each variable its
\* binding leaves unbound.
C6_OptionalDegrade ==
  \A i \in 1..Len(responses) :
    (responses[i].ok /\ responses[i].bindings # <<>>) =>
      /\ i <= Len(dataframes)
      /\ Len(dataframes[i]) = Len(responses[i].bindings)
      /\ \A p \in 1..Len(dataframes[i]) : \A f \in OptionalFields :
           f \notin DOMAIN responses[i].bindings[dataframes[i][p].index] =>
             isna(dataframes[i][p][f])

\* binding a sorts before binding b on key f; unbound sorts last, and with
\* asNumber a numeral sorts by its value and before any other text
KeyBefore(a, b, f, asNumber) ==
  IF f \notin DOMAIN a THEN FALSE
  ELSE IF f \notin DOMAIN b THEN TRUE
  ELSE IF asNumber /\ IsNumeric(a[f]) /\ IsNumeric(b[f])
    THEN ParseDigits(a[f]) < ParseDigits(b[f])
  ELSE IF asNumber /\ IsNumeric(a[f]) THEN TRUE
  ELSE IF asNumber /\ IsNumeric(b[f]) THEN FALSE
  ELSE StrLess(a[f], b[f])

KeySame(a, b, f, asNumber) ==
  ~KeyBefore(a, b, f, asNumber) /\ ~KeyBefore(b, a, f, asNumber)

SameKeys(a, b) ==
  /\ KeySame(a, b, "street", FALSE)
  /\ KeySame(a, b, "paon", TRUE)
  /\ KeySame(a, b, "date", TRUE)

InKeyOrder(a, b) ==
  \/ KeyBefore(a, b, "street", FALSE)
  \/ /\ KeySame(a, b, "street", FALSE)
     /\ \/ KeyBefore(a, b, "paon", TRUE)
        \/ /\ KeySame(a, b, "paon", TRUE)
           /\ ~KeyBefore(b, a, "date", TRUE)

IsValidPostcode(code) ==
  \A i \in 1..Len(code) : IsAlnum(code[i]) \/ code[i] = " "

Contains(text, part) ==
  \E i \in 1..(Len(text) - Len(part) + 1) :
    SubSeq(text, i, i + Len(part) - 1) = part

\* C9: a postcode holding a character other than a letter, a digit or a
\* space is never embedded in a query, and the run that met one ends with a
\* ValidationError.
C9_PostcodeValidated ==
  \A i \in 1..Len(postcodes) :
    ~IsValidPostcode(postcodes[i]) =>
      /\ \A k \in 1..Len(queries) : ~Contains(queries[k], postcodes[i])
      /\ (pc = "done" => (screen = "exception" /\ err[1] = "ValidationError"))

\* C10: without the button, a run with a postcode entered fetches exactly
\* when the autorun parameter is True; with any other value, or none, it
\* shows the placeholder.
C10_AutorunOnlyTrue ==
  (~button /\ pc = "done" /\ Len(postcode_str) > 0) =>
    /\ (queries # <<>>) <=> (autorun = AutorunParam(<<"True">>))
    /\ autorun # AutorunParam(<<"True">>) => screen = "placeholder"

====
